---- MODULE Spec2Model ----
(***************************************************************************)
(* Model of the selective tree-building filter of moraes/sadbox:          *)
(* htmlfilter.NextTextFilter / NextStartTag / TextInTag / popTag and its   *)
(* xmlfilter twin NextNames / skipUntilStartElement / parseList / popName. *)
(*                                                                         *)
(* The tokenizer (exp/html Tokenizer, encoding/xml Decoder) is the         *)
(* environment: every t.Next() / d.RawToken() yields a token chosen from a *)
(* small alphabet, or an error that then sticks.  The recursion of         *)
(* TextInTag / parseList is kept as an explicit sequence of frames, one    *)
(* per live invocation, innermost last.  One action is one iteration of    *)
(* the loop that is running, with everything the iteration does: the       *)
(* return of the invocation and the caller's append included.              *)
(***************************************************************************)
EXTENDS Integers, Sequences, FiniteSets, TLC

(* ------------------------------ bounds --------------------------------- *)

\* Number of tokens the tokenizer yields at most before it reports an error.
MaxLen == 5

(* ------------------------------ alphabet ------------------------------- *)

\* Strings are sequences of characters, tag names and character data alike.
TagP == <<"p">>
TagA == <<"a">>
TagS == <<"s">>

\* Tag names that occur in the stream.  TagS is never asked for.
TagNames == {TagP, TagA, TagS}

\* Character data: blank, and padded with white space on both sides.
TextData == { <<" ">>, <<" ", "x", " ">> }

\* Errors of the tokenizer: end of input, and a read or syntax error.
TokenizerErrs == {"EOF", "IO"}

Variants == {"html", "xml"}

Tok(type, data) == [type |-> type, data |-> data]

\* html.Token{} / the zero xml.StartElement
NilToken == Tok("", <<>>)

StartTags == {Tok("StartTagToken", n) : n \in TagNames}
EndTags == {Tok("EndTagToken", n) : n \in TagNames}
SelfClosingTags == {Tok("SelfClosingTagToken", n) : n \in TagNames}
TextTokens == {Tok("TextToken", d) : d \in TextData}
OtherTokens == {Tok("CommentToken", <<>>)}

\* The error token; e is what t.Err() then reports.
ErrorToken(e) == Tok("ErrorToken", <<e>>)

\* encoding/xml has no self-closing token: RawToken yields a StartElement
\* and then an EndElement.
Tokens(v) ==
    StartTags \cup EndTags \cup TextTokens \cup OtherTokens
        \cup (IF v = "html" THEN SelfClosingTags ELSE {})

Range(s) == {s[i] : i \in 1..Len(s)}

\* The lists of names a caller passes (tagNames ...string): one name, two
\* names, and lists that hold a name twice.
NameLists == { <<TagP>>, <<TagP, TagA>>, <<TagA, TagA>>, <<TagP, TagA, TagA>> }

(* ------------------------------ values --------------------------------- *)

Err(kind, expected, actual, stack) ==
    [kind |-> kind, expected |-> expected, actual |-> actual, stack |-> stack]

NoErr == Err("nil", <<>>, <<>>, <<>>)

\* t.Err() / the err of d.RawToken(), handed on as it is
TokenizerErr(e) == Err(e, <<>>, <<>>, <<>>)

\* Node{Token: tt, List: list}; idx is the position of tt in the stream.
Node(tt, list, idx) == [Token |-> tt, List |-> list, idx |-> idx]

NilNode == Node(NilToken, <<>>, 0)

NoResult == [node |-> NilNode, err |-> NoErr, returned |-> FALSE]

Result(node, err) == [node |-> node, err |-> err, returned |-> TRUE]

(* --------------------------- pure functions ---------------------------- *)

IsSpace(ch) == ch = " "

RECURSIVE TrimLeft(_)
TrimLeft(s) ==
    IF s = <<>> THEN s
    ELSE IF IsSpace(Head(s)) THEN TrimLeft(Tail(s)) ELSE s

RECURSIVE TrimRight(_)
TrimRight(s) ==
    IF s = <<>> THEN s
    ELSE IF IsSpace(s[Len(s)]) THEN TrimRight(SubSeq(s, 1, Len(s) - 1)) ELSE s

TrimSpaceLeftOnly(s) == TrimLeft(s)

\* strings.TrimSpace / bytes.TrimSpace
TrimSpace(s) == TrimRight(TrimLeft(s))

popTagNoCheck(tags, tag) ==
    IF Len(tags) = 0
    THEN [tags |-> <<>>, err |-> Err("unexpected", <<>>, tag, <<>>)]
    ELSE [tags |-> SubSeq(tags, 1, Len(tags) - 1), err |-> NoErr]

\* popTag / popName
popTag(tags, tag) ==
    IF Len(tags) = 0
    THEN [tags |-> <<>>, err |-> Err("unexpected", <<>>, tag, <<>>)]
    ELSE IF tags[Len(tags)] # tag
    THEN [tags |-> <<>>, err |-> Err("mismatch", tags[Len(tags)], tag, <<>>)]
    ELSE [tags |-> SubSeq(tags, 1, Len(tags) - 1), err |-> NoErr]

matchIndexAny(names, tag, from) == IF from < Len(names) THEN from + 1 ELSE 0

\* for _, v := range names { if v == tag ... }: the first index after `from`
\* whose name is tag, 0 when there is none.
matchIndex(names, tag, from) ==
    IF \E i \in (from + 1)..Len(names) : names[i] = tag
    THEN CHOOSE i \in (from + 1)..Len(names) :
            /\ names[i] = tag
            /\ \A j \in (from + 1)..(i - 1) : names[j] # tag
    ELSE 0

appendFront(c, n) == <<n>> \o c

\* c = append(c, n)
append(c, n) == Append(c, n)

(* ------------------------------- state --------------------------------- *)

VARIABLES
    variant,    \* which package runs: "html" or "xml"
    tagNames,   \* the names the caller passes, the same in every call
    pos,        \* number of tokens the tokenizer has yielded
    terr,       \* the tokenizer's sticky error, "" while it has none
    pc,         \* "idle": no call runs; "locate": NextStartTag; "build": TextInTag
    frames,     \* live TextInTag invocations, outermost first
    result,     \* what the last call returned
    last,       \* history: the last token read, and where the reader stood
    returnedAt, \* history: pos when a call last returned a node, 0 before
    prevErr,    \* history: the kind of error the call before returned, "" before
    nest        \* history: the tags read since the root, checked for nesting

vars == <<variant, tagNames, pos, terr, pc, frames, result, last, returnedAt,
          prevErr, nest>>

\* One TextInTag invocation: tt/idx the start tag it was entered for, vi the
\* index in tagNames at which the caller's loop matched, stack and c its
\* locals; reads is history: the positions of the tokens it read that the
\* tag set and the text rule ask a node for.
Frame(tt, idx, vi) ==
    [tt |-> tt, idx |-> idx, vi |-> vi, stack |-> <<tt.data>>, c |-> <<>>,
     reads |-> <<>>]

Top == frames[Len(frames)]

RECURSIVE Flatten(_)
Flatten(fs) == IF fs = <<>> THEN <<>> ELSE Head(fs).stack \o Flatten(Tail(fs))

\* The number of child nodes in the lists of the invocations fs.
RECURSIVE Kids(_)
Kids(fs) == IF fs = <<>> THEN 0 ELSE Len(Head(fs).c) + Kids(Tail(fs))

NoRead == [ph |-> "none", tok |-> NilToken, at |-> 0, stack |-> <<>>,
           depth |-> 0, open |-> <<>>, kids |-> 0]

\* The record of a read of tok in phase ph, taken before the step acts: the
\* position of tok, the reader's stack, the number of live invocations,
\* every tag open in any of them, outermost first, and the number of child
\* nodes they hold.
ReadOf(ph, tok) ==
    [ph |-> ph, tok |-> tok,
     at |-> IF tok.type = "ErrorToken" THEN pos ELSE pos + 1,
     stack |-> IF frames = <<>> THEN <<>> ELSE Top.stack,
     depth |-> Len(frames),
     open |-> Flatten(frames),
     kids |-> Kids(frames)]

\* A start tag or self-closing tag whose name the caller asked for.
IsWanted(tok) ==
    /\ tok.type \in {"StartTagToken", "SelfClosingTagToken"}
    /\ tok.data \in Range(tagNames)

\* Character data that is not all white space.
IsNonBlank(tok) ==
    /\ tok.type = "TextToken"
    /\ \E i \in 1..Len(tok.data) : tok.data[i] # " "

\* The reading invocation with the read noted in its history.
Noted(tok) ==
    [Top EXCEPT !.reads =
        IF IsWanted(tok) \/ IsNonBlank(tok) THEN Append(@, pos + 1) ELSE @]

NoNest == [open |-> <<>>, ok |-> TRUE]

\* The nesting of the tags read, kept apart from the program's stacks: a
\* start tag opens, an end tag closes the tag opened last if that has its
\* name and is out of place otherwise, a self-closing tag does neither.
Nested(n, tok) ==
    IF tok.type = "StartTagToken"
    THEN [n EXCEPT !.open = Append(@, tok.data)]
    ELSE IF tok.type = "EndTagToken"
    THEN IF n.open # <<>> /\ n.open[Len(n.open)] = tok.data
         THEN [n EXCEPT !.open = SubSeq(@, 1, Len(@) - 1)]
         ELSE [n EXCEPT !.ok = FALSE]
    ELSE n

\* t.Next() / d.RawToken(): what the tokenizer may yield now.
Yields ==
    IF terr # "" THEN {ErrorToken(terr)}
    ELSE {ErrorToken(e) : e \in TokenizerErrs}
            \cup (IF pos < MaxLen THEN Tokens(variant) ELSE {})

\* The tokenizer's own state after yielding tok.
Advance(tok) ==
    IF tok.type = "ErrorToken"
    THEN /\ terr' = tok.data[1]
         /\ pos' = pos
    ELSE /\ terr' = terr
         /\ pos' = pos + 1

SetTop(f) == [frames EXCEPT ![Len(frames)] = f]

Init ==
    /\ variant \in Variants
    /\ tagNames \in NameLists
    /\ pos = 0
    /\ terr = ""
    /\ pc = "idle"
    /\ frames = <<>>
    /\ result = NoResult
    /\ last = NoRead
    /\ returnedAt = 0
    /\ prevErr = ""
    /\ nest = NoNest

(* ------------------------------ actions -------------------------------- *)

\* NextTextFilter / NextNames is called.
NextTextFilter ==
    /\ pc = "idle"
    /\ pc' = "locate"
    /\ result' = NoResult
    /\ last' = NoRead
    /\ returnedAt' = IF result.returned /\ result.err = NoErr THEN pos ELSE returnedAt
    /\ prevErr' = IF result.returned THEN result.err.kind ELSE ""
    /\ nest' = NoNest
    /\ UNCHANGED <<variant, tagNames, pos, terr, frames>>

NextStartTagErrorReworded ==
    /\ pc = "locate"
    /\ \E tok \in Yields :
        /\ tok.type = "ErrorToken"
        /\ Advance(tok)
        /\ last' = ReadOf("locate", tok)
        /\ result' = Result(NilNode, Err("unclosed", <<>>, <<>>, <<>>))
        /\ pc' = "idle"
    /\ UNCHANGED <<variant, tagNames, frames, returnedAt, prevErr, nest>>

\* NextStartTag reads the tokenizer's error: the call returns it.
NextStartTagError ==
    /\ pc = "locate"
    /\ \E tok \in Yields :
        /\ tok.type = "ErrorToken"
        /\ Advance(tok)
        /\ last' = ReadOf("locate", tok)
        /\ result' = Result(NilNode, TokenizerErr(tok.data[1]))
        /\ pc' = "idle"
    /\ UNCHANGED <<variant, tagNames, frames, returnedAt, prevErr, nest>>

\* The tokens NextStartTag / skipUntilStartElement looks at.
IsStartKind(tok) ==
    \/ tok.type = "StartTagToken"
    \/ tok.type = "SelfClosingTagToken"

NextStartTagSkipAny ==
    /\ pc = "locate"
    /\ \E tok \in Yields :
        /\ tok.type # "ErrorToken"
        /\ Advance(tok)
        /\ last' = ReadOf("locate", tok)
    /\ UNCHANGED <<variant, tagNames, pc, frames, result, returnedAt, prevErr, nest>>

NextStartTagSkipChecked ==
    /\ pc = "locate"
    /\ \E tok \in Yields :
        /\ tok.type # "ErrorToken"
        /\ ~(IsStartKind(tok) /\ matchIndex(tagNames, tok.data, 0) # 0)
        /\ Advance(tok)
        /\ last' = ReadOf("locate", tok)
        /\ IF tok.type = "EndTagToken"
           THEN /\ result' = Result(NilNode, popTag(<<>>, tok.data).err)
                /\ pc' = "idle"
           ELSE UNCHANGED <<pc, result>>
    /\ UNCHANGED <<variant, tagNames, frames, returnedAt, prevErr, nest>>

\* NextStartTag reads a token that is no start tag of the given names.
NextStartTagSkip ==
    /\ pc = "locate"
    /\ \E tok \in Yields :
        /\ tok.type # "ErrorToken"
        /\ ~(IsStartKind(tok) /\ matchIndex(tagNames, tok.data, 0) # 0)
        /\ Advance(tok)
        /\ last' = ReadOf("locate", tok)
    /\ UNCHANGED <<variant, tagNames, pc, frames, result, returnedAt, prevErr, nest>>

\* NextStartTag returns a start tag of the given names and NextTextFilter
\* calls TextInTag(t, tt.Data, tagNames...) for it.
NextStartTagFound ==
    /\ pc = "locate"
    /\ \E tok \in Yields :
        /\ tok.type # "ErrorToken"
        /\ IsStartKind(tok)
        /\ matchIndex(tagNames, tok.data, 0) # 0
        /\ Advance(tok)
        /\ last' = ReadOf("locate", tok)
        /\ frames' = <<Frame(tok, pos + 1, 0)>>
        /\ nest' = Nested(NoNest, tok)
        /\ pc' = "build"
    /\ UNCHANGED <<variant, tagNames, result, returnedAt, prevErr>>

TextInTagErrorIgnored ==
    /\ pc = "build"
    /\ \E tok \in Yields :
        /\ tok.type = "ErrorToken"
        /\ Advance(tok)
        /\ last' = ReadOf("build", tok)
    /\ UNCHANGED <<variant, tagNames, pc, frames, result, returnedAt, prevErr, nest>>

TextInTagErrorInnerOnly ==
    /\ pc = "build"
    /\ \E tok \in Yields :
        /\ tok.type = "ErrorToken"
        /\ Advance(tok)
        /\ last' = ReadOf("build", tok)
        /\ IF Len(frames) = 1
           THEN /\ result' = Result(NilNode, Err("unclosed", <<>>, <<>>, Top.stack))
                /\ frames' = <<>>
                /\ pc' = "idle"
           ELSE /\ frames' = SubSeq(frames, 1, Len(frames) - 1)
                /\ UNCHANGED <<pc, result>>
    /\ UNCHANGED <<variant, tagNames, returnedAt, prevErr, nest>>

\* TextInTag reads the tokenizer's error: "unclosed tags: %v", stack.  Every
\* caller up to NextTextFilter returns that error.
TextInTagError ==
    /\ pc = "build"
    /\ \E tok \in Yields :
        /\ tok.type = "ErrorToken"
        /\ Advance(tok)
        /\ last' = ReadOf("build", tok)
        /\ result' = Result(NilNode, Err("unclosed", <<>>, <<>>, Top.stack))
        /\ frames' = <<>>
        /\ pc' = "idle"
    /\ UNCHANGED <<variant, tagNames, returnedAt, prevErr, nest>>

\* TextInTag reads a self-closing tag.
TextInTagSelfClosingTag ==
    /\ pc = "build"
    /\ \E tok \in Yields :
        /\ tok.type = "SelfClosingTagToken"
        /\ Advance(tok)
        /\ last' = ReadOf("build", tok)
        /\ IF matchIndex(tagNames, tok.data, 0) # 0
           THEN frames' = SetTop([Noted(tok) EXCEPT
                    !.c = append(@, Node(tok, <<>>, pos + 1))])
           ELSE frames' = SetTop(Noted(tok))
    /\ UNCHANGED <<variant, tagNames, pc, result, returnedAt, prevErr, nest>>

TextInTagStartTagPushed ==
    /\ pc = "build"
    /\ \E tok \in Yields :
        /\ tok.type = "StartTagToken"
        /\ Advance(tok)
        /\ last' = ReadOf("build", tok)
        /\ LET vi == matchIndex(tagNames, tok.data, 0)
               pushed == [Noted(tok) EXCEPT !.stack = Append(@, tok.data)]
           IN  IF vi # 0
               THEN frames' = Append(SetTop(pushed), Frame(tok, pos + 1, vi))
               ELSE frames' = SetTop(pushed)
        /\ nest' = Nested(nest, tok)
    /\ UNCHANGED <<variant, tagNames, pc, result, returnedAt, prevErr>>

TextInTagStartTagScoped ==
    /\ pc = "build"
    /\ \E tok \in Yields :
        /\ tok.type = "StartTagToken"
        /\ Advance(tok)
        /\ last' = ReadOf("build", tok)
        /\ LET vi == matchIndex(tagNames, tok.data, 0) IN
           IF vi # 0 /\ Len(Top.stack) = 1
           THEN frames' = Append(SetTop(Noted(tok)), Frame(tok, pos + 1, vi))
           ELSE frames' = SetTop([Noted(tok) EXCEPT !.stack = Append(@, tok.data)])
        /\ nest' = Nested(nest, tok)
    /\ UNCHANGED <<variant, tagNames, pc, result, returnedAt, prevErr>>

\* TextInTag reads a start tag: a tag of the given names starts a nested
\* TextInTag, any other tag is pushed on the stack.
TextInTagStartTag ==
    /\ pc = "build"
    /\ \E tok \in Yields :
        /\ tok.type = "StartTagToken"
        /\ Advance(tok)
        /\ last' = ReadOf("build", tok)
        /\ LET vi == matchIndex(tagNames, tok.data, 0) IN
           IF vi # 0
           THEN frames' = Append(SetTop(Noted(tok)), Frame(tok, pos + 1, vi))
           ELSE frames' = SetTop([Noted(tok) EXCEPT !.stack = Append(@, tok.data)])
        /\ nest' = Nested(nest, tok)
    /\ UNCHANGED <<variant, tagNames, pc, result, returnedAt, prevErr>>

\* What the caller's loop over the names does when the nested invocation it
\* started for f returns list: it appends the node, and then htmlfilter
\* breaks, while xmlfilter goes on to the next name equal to the tag and
\* calls parseList again.
Returned(callers, f, list) ==
    LET caller == callers[Len(callers)]
        after == [callers EXCEPT ![Len(callers)] =
                    [caller EXCEPT !.c = append(@, Node(f.tt, list, f.idx))]]
        vi == IF variant = "xml" THEN matchIndex(tagNames, f.tt.data, f.vi) ELSE 0
    IN  IF vi # 0 THEN Append(after, Frame(f.tt, f.idx, vi)) ELSE after

TextInTagEndTagNoExit ==
    /\ pc = "build"
    /\ \E tok \in Yields :
        /\ tok.type = "EndTagToken"
        /\ Advance(tok)
        /\ last' = ReadOf("build", tok)
        /\ LET p == popTag(Top.stack, tok.data) IN
           IF p.err # NoErr
           THEN /\ result' = Result(NilNode, p.err)
                /\ frames' = <<>>
                /\ pc' = "idle"
           ELSE /\ frames' = SetTop([Top EXCEPT !.stack = p.tags])
                /\ UNCHANGED <<pc, result>>
        /\ nest' = Nested(nest, tok)
    /\ UNCHANGED <<variant, tagNames, returnedAt, prevErr>>

\* TextInTag reads an end tag: popTag; a mismatch fails the call; when the
\* stack is empty the invocation returns its list.
TextInTagEndTag ==
    /\ pc = "build"
    /\ \E tok \in Yields :
        /\ tok.type = "EndTagToken"
        /\ Advance(tok)
        /\ last' = ReadOf("build", tok)
        /\ LET p == popTag(Top.stack, tok.data) IN
           IF p.err # NoErr
           THEN /\ result' = Result(NilNode, p.err)
                /\ frames' = <<>>
                /\ pc' = "idle"
           ELSE IF Len(p.tags) > 0
           THEN /\ frames' = SetTop([Top EXCEPT !.stack = p.tags])
                /\ UNCHANGED <<pc, result>>
           ELSE IF Len(frames) = 1
           THEN /\ result' = Result(Node(Top.tt, Top.c, Top.idx), NoErr)
                /\ frames' = <<>>
                /\ pc' = "idle"
           ELSE /\ frames' = Returned(SubSeq(frames, 1, Len(frames) - 1), Top, Top.c)
                /\ UNCHANGED <<pc, result>>
        /\ nest' = Nested(nest, tok)
    /\ UNCHANGED <<variant, tagNames, returnedAt, prevErr>>

TextInTagTextScoped ==
    /\ pc = "build"
    /\ \E tok \in Yields :
        /\ tok.type = "TextToken"
        /\ Advance(tok)
        /\ last' = ReadOf("build", tok)
        /\ LET data == TrimSpace(tok.data) IN
           IF Len(data) > 0 /\ Len(Top.stack) = 1
           THEN frames' = SetTop([Noted(tok) EXCEPT
                    !.c = append(@, Node(Tok("TextToken", data), <<>>, pos + 1))])
           ELSE frames' = SetTop(Noted(tok))
    /\ UNCHANGED <<variant, tagNames, pc, result, returnedAt, prevErr, nest>>

\* TextInTag reads character data: trimmed, and kept when something is left.
TextInTagText ==
    /\ pc = "build"
    /\ \E tok \in Yields :
        /\ tok.type = "TextToken"
        /\ Advance(tok)
        /\ last' = ReadOf("build", tok)
        /\ LET data == TrimSpace(tok.data) IN
           IF Len(data) > 0
           THEN frames' = SetTop([Noted(tok) EXCEPT
                    !.c = append(@, Node(Tok("TextToken", data), <<>>, pos + 1))])
           ELSE frames' = SetTop(Noted(tok))
    /\ UNCHANGED <<variant, tagNames, pc, result, returnedAt, prevErr, nest>>

\* TextInTag reads a comment, doctype, directive or processing instruction.
TextInTagOtherAsNode ==
    /\ pc = "build"
    /\ \E tok \in Yields :
        /\ tok \in OtherTokens
        /\ Advance(tok)
        /\ last' = ReadOf("build", tok)
        /\ frames' = SetTop([Top EXCEPT !.c = append(@, Node(tok, <<>>, pos + 1))])
    /\ UNCHANGED <<variant, tagNames, pc, result, returnedAt, prevErr, nest>>

TextInTagOther ==
    /\ pc = "build"
    /\ \E tok \in Yields :
        /\ tok \in OtherTokens
        /\ Advance(tok)
        /\ last' = ReadOf("build", tok)
    /\ UNCHANGED <<variant, tagNames, pc, frames, result, returnedAt, prevErr, nest>>

Next ==
    \/ NextTextFilter
    \/ NextStartTagError
    \/ NextStartTagSkip
    \/ NextStartTagFound
    \/ TextInTagError
    \/ TextInTagSelfClosingTag
    \/ TextInTagStartTag
    \/ TextInTagEndTag
    \/ TextInTagText
    \/ TextInTagOther

Spec == Init /\ [][Next]_vars

\* One iteration of the loop of the call that is in progress.
Running ==
    \/ NextStartTagError
    \/ NextStartTagSkip
    \/ NextStartTagFound
    \/ TextInTagError
    \/ TextInTagSelfClosingTag
    \/ TextInTagStartTag
    \/ TextInTagEndTag
    \/ TextInTagText
    \/ TextInTagOther

\* A call that has been made keeps executing: its loops have no blocking
\* statement besides the read of the next token, and the tokenizer answers
\* every read with a token or an error.  When the caller makes the next call
\* is left open.
LiveSpec == Spec /\ WF_vars(Running)

(* ------------------------------ the trees ------------------------------ *)

\* Every node of the trees in list, at every depth.
RECURSIVE NodesOf(_)
NodesOf(list) ==
    UNION { {list[i]} \cup NodesOf(list[i].List) : i \in 1..Len(list) }

\* Every child list there is: of the nodes of list, and list itself.
RECURSIVE ListsOf(_)
ListsOf(list) ==
    {list} \cup UNION { ListsOf(list[i].List) : i \in 1..Len(list) }

Succeeded == pc = "idle" /\ result.returned /\ result.err = NoErr

Failed == pc = "idle" /\ result.returned /\ result.err # NoErr

\* The nodes of the tree the last call returned.
ReturnedNodes == IF Succeeded THEN NodesOf(<<result.node>>) ELSE {}

\* The nodes the live invocations have built so far.
PendingNodes == UNION { NodesOf(frames[k].c) : k \in 1..Len(frames) }

\* The child lists returned and under construction.
ChildLists ==
    (IF Succeeded THEN ListsOf(result.node.List) ELSE {})
        \cup UNION { ListsOf(frames[k].c) : k \in 1..Len(frames) }

IsElement(n) == n.Token.type \in {"StartTagToken", "SelfClosingTagToken"}

IsText(n) == n.Token.type = "TextToken"

(* ------------------------------- claims -------------------------------- *)

LastOf(list) == list[Len(list)]

\* The token just read was read by a live TextInTag invocation.
ReadInBuild(type) == last.ph = "build" /\ last.tok.type = type

\* The number of times tag occurs in tags.
Count(tag, tags) == Cardinality({i \in 1..Len(tags) : tags[i] = tag})

\* C1: inside a builder scope non-matched tags are transparent.  In every
\* live invocation, whatever its stack holds, the tokens read so far that
\* are non-blank text or a start tag of the tag set are exactly the tokens
\* that have a child node in its list or are the start tag of the nested
\* invocation now running for it: each of them gave a node, and no other
\* token (a non-matched tag least of all) gave one.
C1_NonMatchedTransparent ==
    \A k \in 1..Len(frames) :
        LET f == frames[k]
            made == {f.c[i].idx : i \in 1..Len(f.c)}
                        \cup (IF k < Len(frames) THEN {frames[k + 1].idx} ELSE {})
        IN  Range(f.reads) = made

\* C1 happens: non-blank text read with two non-matched tags open on the
\* stack is the last child of the reading scope.
C1_Witness ==
    /\ ReadInBuild("TextToken")
    /\ IsNonBlank(last.tok)
    /\ Len(last.stack) >= 3
    /\ \A i \in 2..Len(last.stack) : last.stack[i] \notin Range(tagNames)
    /\ Top.c # <<>>
    /\ LastOf(Top.c).idx = last.at

\* C2: an end tag whose name differs from the top of the reader's stack
\* fails the whole call with the mismatch error: expected is the stack top,
\* actual the end tag's name; no node comes back and no invocation lives on.
C2_MismatchedClosingTag ==
    (/\ ReadInBuild("EndTagToken")
     /\ last.stack # <<>>
     /\ last.tok.data # LastOf(last.stack))
        => /\ Failed
           /\ frames = <<>>
           /\ result.node = NilNode
           /\ result.err = Err("mismatch", LastOf(last.stack), last.tok.data, <<>>)

\* C2 happens: a nested invocation with a non-matched tag open reads the
\* end tag of another name, and the call has failed.
C2_Witness ==
    /\ ReadInBuild("EndTagToken")
    /\ last.depth >= 2
    /\ Len(last.stack) >= 2
    /\ last.tok.data # LastOf(last.stack)
    /\ Failed
    /\ result.err.kind = "mismatch"

\* C3 (as claimed): when the stream ends while a matched tag is open inside
\* another open matched tag, the call fails with the unclosed-tags error and
\* its list holds every tag open at that moment, the enclosing matched
\* ancestors included.
C3_UnclosedListsEveryOpenTag ==
    (/\ ReadInBuild("ErrorToken")
     /\ last.tok = ErrorToken("EOF")
     /\ last.depth >= 2)
        => /\ Failed
           /\ result.err.kind = "unclosed"
           /\ \A tag \in Range(last.open) :
                Count(tag, result.err.stack) >= Count(tag, last.open)

WantedInsideNonMatched ==
    /\ ReadInBuild("StartTagToken")
    /\ IsWanted(last.tok)
    /\ Len(last.stack) >= 2

\* C5 (as claimed): a start tag of the tag set read while a non-matched tag
\* is open is not recursed into: it is pushed on the stack like any other
\* name.
C5_NotRecursedInto ==
    WantedInsideNonMatched =>
        /\ Len(frames) = last.depth
        /\ Top.stack = Append(last.stack, last.tok.data)

\* C5 (amended): a start tag of the tag set read while a non-matched tag is
\* open is recursed into like any other: a nested invocation starts for it
\* with a fresh stack and an empty list, the reader's stack stays as it was,
\* and when the nested invocation reads its end tag the reader has an
\* Element of that name as its last child.
C5_RecursedInto ==
    /\ WantedInsideNonMatched =>
        /\ Len(frames) = last.depth + 1
        /\ Top.tt = last.tok
        /\ Top.idx = last.at
        /\ Top.stack = <<last.tok.data>>
        /\ Top.c = <<>>
        /\ frames[last.depth].stack = last.stack
    /\ (/\ ReadInBuild("EndTagToken")
        /\ last.depth >= 2
        /\ last.stack = <<last.tok.data>>) =>
        /\ Len(frames) >= last.depth - 1
        /\ LET reader == frames[last.depth - 1] IN
            /\ reader.c # <<>>
            /\ LastOf(reader.c).Token = Tok("StartTagToken", last.tok.data)

\* C5 happens: a nested invocation has just returned to a reader that has a
\* non-matched tag open, and the reader got the Element.
C5_Witness ==
    /\ ReadInBuild("EndTagToken")
    /\ last.depth >= 2
    /\ last.stack = <<last.tok.data>>
    /\ Len(frames[last.depth - 1].stack) >= 2
    /\ LastOf(frames[last.depth - 1].c).Token = Tok("StartTagToken", last.tok.data)

\* C6 (as claimed): a read or syntax error of the tokenizer comes back from
\* the call as it is, whether the locator or a builder scope read it.
C6_TokenizerErrorUnchanged ==
    (last.ph \in {"locate", "build"} /\ last.tok = ErrorToken("IO"))
        => /\ Failed
           /\ result.err = TokenizerErr("IO")

\* C7 (as claimed): an Element built from a self-closing tag of the tag set
\* has no children; reading that tag pushes and pops nothing and has no
\* further token read on its behalf, as a nested match (the reader goes on
\* as it was) and as the root (the call returns the childless Element).
C7_SelfClosingHasNoChildren ==
    /\ \A n \in ReturnedNodes \cup PendingNodes :
        n.Token.type = "SelfClosingTagToken" => n.List = <<>>
    /\ (ReadInBuild("SelfClosingTagToken") /\ IsWanted(last.tok)) =>
        /\ Len(frames) = last.depth
        /\ Top.stack = last.stack
        /\ LastOf(Top.c) = Node(last.tok, <<>>, last.at)
    /\ (last.ph = "locate" /\ last.tok.type = "SelfClosingTagToken"
            /\ IsWanted(last.tok)) =>
        /\ Succeeded
        /\ frames = <<>>
        /\ result.node = Node(last.tok, <<>>, last.at)

\* C8: at every depth of the tree a call returned, and of the lists under
\* construction, the name of every Element is one of the names passed to
\* the call.
C8_ElementNamesInTagSet ==
    \A n \in ReturnedNodes \cup PendingNodes :
        IsElement(n) => n.Token.data \in Range(tagNames)

\* C8 happens: a call returned a tree with an Element below the root, both
\* names being names of the tag set.
C8_Witness ==
    /\ Succeeded
    /\ \E i \in 1..Len(result.node.List) :
        /\ IsElement(result.node.List[i])
        /\ result.node.List[i].Token.data # result.node.Token.data

\* d is s without its leading and trailing white space, and is not empty.
IsTrimOf(d, s) ==
    \E i, j \in 1..Len(s) :
        /\ i <= j
        /\ s[i] # " "
        /\ s[j] # " "
        /\ \A k \in 1..Len(s) : (k < i \/ k > j) => s[k] = " "
        /\ d = SubSeq(s, i, j)

\* A child for the token just read is the last of the reader's list.
MadeChild == Top.c # <<>> /\ LastOf(Top.c).idx = last.at

C10_DocumentOrder ==
    \A l \in ChildLists :
        \A i, j \in 1..Len(l) :
            i < j => /\ l[i].idx <= l[j].idx
                     /\ variant = "html" => l[i].idx < l[j].idx

\* C10 happens: a scope has text, then an Element the builder recursed into,
\* then text again.
C10_Witness ==
    \E k \in 1..Len(frames) :
        LET c == frames[k].c IN
            /\ Len(c) >= 3
            /\ IsText(c[1])
            /\ c[2].Token.type = "StartTagToken"
            /\ IsText(c[3])

\* The token just read was read by the locator, and is a token.
ReadInLocate == last.ph = "locate" /\ last.tok.type # "ErrorToken"

\* C11: the root of a call is the first start tag or self-closing tag of the
\* tag set the locator reads, and what it skips is never balance-checked:
\* whatever token the locator reads, an end tag with nothing open and a
\* start tag that is never closed included, the call does not fail on it;
\* it goes on locating with nothing open, or it has its root.  A call fails
\* on a mismatched or unclosed tag only inside a builder scope, and the
\* scope of the root starts afresh, whatever was skipped before it.
C11_SkippedTagsNotChecked ==
    /\ ReadInLocate =>
        /\ ~result.returned
        /\ IF IsWanted(last.tok)
           THEN /\ pc = "build"
                /\ Len(frames) = 1
                /\ frames[1].tt = last.tok
                /\ frames[1].stack = <<last.tok.data>>
                /\ frames[1].c = <<>>
           ELSE /\ pc = "locate"
                /\ frames = <<>>
    /\ (Failed /\ result.err.kind \in {"mismatch", "unclosed", "unexpected"})
        => last.ph = "build"

\* C11 happens: before any match was found the locator has read an end tag,
\* with nothing open, and goes on locating.
C11_Witness ==
    /\ ReadInLocate
    /\ last.tok.type = "EndTagToken"
    /\ returnedAt = 0
    /\ pc = "locate"

\* C12: when the locator reads the end of the stream the call returns the
\* tokenizer's end-of-stream error itself and no node, and a call made after
\* a call that returned the end-of-stream error returns it again.
C12_EndOfStream ==
    /\ (last.ph = "locate" /\ last.tok = ErrorToken("EOF")) =>
        /\ pc = "idle"
        /\ result = Result(NilNode, TokenizerErr("EOF"))
    /\ (prevErr = "EOF" /\ result.returned) =>
        result = Result(NilNode, TokenizerErr("EOF"))
    /\ (prevErr = "EOF" /\ pc # "idle") => (pc = "locate" /\ terr = "EOF")

\* C12 happens: a call made after the end-of-stream error has returned it
\* again.
C12_Witness ==
    /\ prevErr = "EOF"
    /\ pc = "idle"
    /\ result.returned
    /\ result.err = TokenizerErr("EOF")

\* C13: every error is fatal to the whole call.  When an invocation, at
\* whatever depth, reads the tokenizer's error or an end tag that does not
\* close the tag on top of its stack, the call has returned in that very
\* step: no invocation lives on, no token is read after the failing one, the
\* error is the one the failing invocation made from its own stack, and the
\* node is the empty node, whatever children had been built.
C13_ErrorsAreFatal ==
    /\ ReadInBuild("ErrorToken") =>
        /\ Failed
        /\ result.err = Err("unclosed", <<>>, <<>>, last.stack)
    /\ (ReadInBuild("EndTagToken") /\ last.tok.data # LastOf(last.stack)) =>
        /\ Failed
        /\ result.err.kind = "mismatch"
        /\ result.err.expected = LastOf(last.stack)
    /\ Failed =>
        /\ frames = <<>>
        /\ result.node = NilNode
        /\ pos = last.at
        /\ last.ph \in {"locate", "build"}

\* C13 happens: an invocation nested two deep fails while children had been
\* built, and the call has returned the error without them.
C13_Witness ==
    /\ Failed
    /\ last.ph = "build"
    /\ last.depth >= 3
    /\ last.kids >= 1
    /\ result.node = NilNode

\* C14 (as claimed): when a call returns a node, the start and end tags read
\* from the root through the last end tag are properly nested: every end tag
\* closed the tag opened last, which had its name, and nothing is left open
\* behind the last one, which closed the root.
C14_ProperlyNested ==
    Succeeded =>
        /\ nest.ok
        /\ nest.open = <<>>

\* The name is not one the caller asked for.
IsNonMatchedName(name) == name \notin Range(tagNames)

\* The stacks of the invocations fs without their bottom elements, outermost
\* first.
RECURSIVE AboveBottoms(_)
AboveBottoms(fs) ==
    IF fs = <<>> THEN <<>> ELSE Tail(Head(fs).stack) \o AboveBottoms(Tail(fs))

\* The token just read closes the tag the reading invocation was entered for.
ClosesScope ==
    /\ ReadInBuild("EndTagToken")
    /\ last.stack = <<last.tok.data>>

\* C15: while an invocation runs, its stack has the tag it was entered for
\* at the bottom and above it names that are not in the tag set, and these
\* are the non-matched start tags read and not yet closed, in the order they
\* were opened.  A non-matched start tag is pushed, an end tag pops the top,
\* a start tag of the tag set leaves the reader's stack as it is, and the
\* invocation ends, its stack empty, exactly in the step that reads the end
\* tag of the tag it was entered for with nothing else on the stack.
C15_OpenTagStack ==
    /\ \A k \in 1..Len(frames) :
        /\ frames[k].stack # <<>>
        /\ frames[k].stack[1] = frames[k].tt.data
        /\ \A i \in 2..Len(frames[k].stack) : IsNonMatchedName(frames[k].stack[i])
    /\ pc = "build" => AboveBottoms(frames) = SelectSeq(nest.open, IsNonMatchedName)
    /\ ReadInBuild("StartTagToken") =>
        IF IsWanted(last.tok)
        THEN /\ Len(frames) = last.depth + 1
             /\ frames[last.depth].stack = last.stack
        ELSE /\ Len(frames) = last.depth
             /\ Top.stack = Append(last.stack, last.tok.data)
    /\ (/\ ReadInBuild("EndTagToken")
        /\ Len(last.stack) >= 2
        /\ last.tok.data = LastOf(last.stack)) =>
        /\ Len(frames) = last.depth
        /\ Top.stack = SubSeq(last.stack, 1, Len(last.stack) - 1)
    /\ ClosesScope =>
        IF last.depth = 1
        THEN Succeeded /\ frames = <<>>
        ELSE /\ pc = "build"
             /\ Len(frames) \in {last.depth - 1, last.depth}
             /\ LastOf(frames[last.depth - 1].c).Token.data = last.tok.data
             /\ Len(frames) = last.depth =>
                    /\ Top.stack = last.stack
                    /\ Top.c = <<>>
                    /\ Top.reads = <<>>
    /\ (/\ last.ph = "build"
        /\ ~ClosesScope
        /\ ~Failed
        /\ ~(ReadInBuild("StartTagToken") /\ IsWanted(last.tok))) =>
        /\ pc = "build"
        /\ Len(frames) = last.depth

\* C15 happens: a nested invocation has two non-matched tags open above the
\* tag it was entered for, and the invocation that started it has a
\* non-matched tag open too.
C15_Witness ==
    /\ pc = "build"
    /\ Len(frames) >= 2
    /\ Len(Top.stack) >= 3
    /\ Len(frames[Len(frames) - 1].stack) >= 2

\* The step reads, inside a builder scope, a token the builder has no case
\* for, or a self-closing tag whose name is not in the tag set.
ReadsIgnored ==
    /\ pc = "build"
    /\ pos' = pos + 1
    /\ last'.ph = "build"
    /\ \/ last'.tok \in OtherTokens
       \/ /\ last'.tok.type = "SelfClosingTagToken"
          /\ ~IsWanted(last'.tok)

\* C16: a step in which an invocation reads a comment (or any other token
\* the builder has no case for), or in htmlfilter a self-closing tag that is
\* not in the tag set, leaves the stack and the child list of every live
\* invocation as they were, starts and ends no invocation and returns
\* nothing.
C16_IgnoredTokens ==
    [][ReadsIgnored =>
            /\ Len(frames') = Len(frames)
            /\ \A k \in 1..Len(frames) :
                /\ frames'[k].stack = frames[k].stack
                /\ frames'[k].c = frames[k].c
            /\ pc' = "build"
            /\ result' = result]_vars

\* C16 happens: a comment has just been read by an invocation that has a
\* child and a non-matched tag open.
C16_Witness ==
    /\ pc = "build"
    /\ last.ph = "build"
    /\ last.tok \in OtherTokens
    /\ Top.c # <<>>
    /\ Len(Top.stack) >= 2

\* C17: every call returns.  A call in progress eventually comes back to
\* the caller with a result; each of its steps either consumes one token or
\* reads the tokenizer's error and returns; and once the tokenizer has
\* signalled the end of the stream or an error, no invocation of the builder
\* is running.
C17_EveryCallReturns ==
    /\ (pc # "idle") ~> (pc = "idle" /\ result.returned)
    /\ [][pc # "idle" =>
            \/ pos' = pos + 1 /\ terr' = ""
            \/ pos' = pos /\ terr' # "" /\ pc' = "idle"]_vars
    /\ [](terr # "" => (pc # "build" /\ frames = <<>>))

\* C17 happens: the stream ended while a nested invocation was reading, and
\* the call has returned.
C17_Witness ==
    /\ pc = "idle"
    /\ result.returned
    /\ frames = <<>>
    /\ terr = "EOF"
    /\ last.ph = "build"
    /\ last.tok.type = "ErrorToken"
    /\ last.depth >= 2
    /\ last.at >= 3

\* C18: no call returns the unexpected-closing-tag error.  An invocation
\* that is running has a non-empty stack, so every end tag read by an
\* invocation is popped from a non-empty stack; an end tag read while
\* looking for the next matching start tag is skipped, and the search goes
\* on.
C18_NeverUnexpectedClosingTag ==
    /\ result.err.kind # "unexpected"
    /\ \A k \in 1..Len(frames) : frames[k].stack # <<>>
    /\ ReadInBuild("EndTagToken") => last.stack # <<>>
    /\ (ReadInLocate /\ last.tok.type = "EndTagToken") =>
        /\ pc = "locate"
        /\ frames = <<>>
        /\ ~result.returned

\* C18 happens: the token right behind a block that was returned is one more
\* end tag, and the next call has skipped it.
C18_Witness ==
    /\ ReadInLocate
    /\ last.tok.type = "EndTagToken"
    /\ returnedAt > 0
    /\ last.at = returnedAt + 1
    /\ pc = "locate"

\* C19: a start tag of the tag set read by an invocation starts one
\* invocation and gives one Element: no child list holds two nodes for the
\* same token, no invocation runs for a tag that already has its Element in
\* the caller's list, and when a nested invocation ends, control is back in
\* the invocation that started it.  This is stated for both variants and
\* for lists of names with a repeated name.
C19_OneInvocationOneElement ==
    /\ \A list \in ChildLists :
        \A i, j \in 1..Len(list) : i # j => list[i].idx # list[j].idx
    /\ \A k \in 2..Len(frames) :
        \A i \in 1..Len(frames[k - 1].c) : frames[k - 1].c[i].idx # frames[k].idx
    /\ (ReadInBuild("StartTagToken") /\ IsWanted(last.tok)) =>
        /\ Len(frames) = last.depth + 1
        /\ Top.idx = last.at
        /\ Top.c = <<>>
    /\ (ClosesScope /\ last.depth >= 2) => Len(frames) = last.depth - 1

====
